---- MODULE Spec2Model ----
(***************************************************************************)
(* Deferred acceptance (Gale-Shapley), one-to-one and many-to-one, as      *)
(* implemented by deferred_acceptance and prefs2ranks in src/matching.py.  *)
(* Identifiers are 0-based as in the source: proposers 0..m-1, respondents *)
(* 0..n-1, "respondent n" / "proposer m" are the unmatched sentinels.      *)
(* Arrays are functions on 0..len-1, matrices are functions of rows.       *)
(***************************************************************************)
EXTENDS Integers, Sequences, FiniteSets, TLC

\* Bounds of the model.
MaxProps == 3
MaxResps == 2
MaxCap == 2
MaxFull == 2
MaxRaw == 2
Precision == 3

VARIABLES
    prop_prefs,      \* input: proposers' preference orders (rows)
    resp_prefs,      \* input: respondents' preference orders (rows)
    caps,            \* input: [is_none, array]
    resp_ranks,      \* rank table filled by prefs2ranks
    indptr,          \* index pointers into current_prop
    is_single_prop,  \* flag per proposer
    next_resp,       \* cursor per proposer
    current_prop,    \* slot array
    nums_occupied,   \* occupied seats per respondent
    p,               \* position of the for loop over proposers
    pc,              \* "start", "loop", "done" or "error"
    error,           \* the message of the ValueError raised, "" if none
    result,          \* the returned tuple, <<>> until the function returns
    num_proposals,   \* history: number of proposals each proposer has made
    last,            \* history: the last proposal of the loop in index order
    args,            \* random_prefs: [m, n, allow_unmatched, return_caps]
    frame,           \* random_prefs: the locals of the running _random_prefs
    m_prefs          \* random_prefs: the matrix its first call returned

vars == <<prop_prefs, resp_prefs, caps, resp_ranks, indptr, is_single_prop,
          next_resp, current_prop, nums_occupied, p, pc, error, result,
          num_proposals, last, args, frame, m_prefs>>

inputs == <<prop_prefs, resp_prefs, caps>>

\* The state of random_prefs, which deferred_acceptance never touches
generator == <<args, frame, m_prefs>>

----------------------------------------------------------------------------
\* Arrays

Array(seq) == [j \in 0..(Len(seq) - 1) |-> seq[j + 1]]

Matrix(rows) == [i \in 0..(Len(rows) - 1) |-> Array(rows[i + 1])]

len(a) == Cardinality(DOMAIN a)

\* ndarray.shape of a matrix with at least one row
shape(a) == <<len(a), len(a[0])>>

\* The rows that are a preference order over 0..k: every id exactly once.
Perms(k) == {f \in [0..k -> 0..k] : \A a, b \in 0..k : a # b => f[a] # f[b]}

\* caps=None, or an array of capacities
None == [is_none |-> TRUE, array |-> <<>>]

Caps(a) == [is_none |-> FALSE, array |-> a]

\* The value of a variable whose array has not been created yet.
NotCreated == <<>>

\* The state of random_prefs when it is not the function running
NotGenerating ==
    /\ args = NotCreated
    /\ frame = NotCreated
    /\ m_prefs = NotCreated

\* The value of last before any proposal
NoProposal == [q |-> -1, r |-> -1, branch |-> "none"]

----------------------------------------------------------------------------
\* deferred_acceptance, lines 60-97: validation and construction

num_props == len(prop_prefs)

num_resps == len(resp_prefs)

Props == 0..(num_props - 1)

Resps == 0..(num_resps - 1)

prop_unmatched == num_resps

resp_unmatched == num_props

\* Mutant: the shape of resp_prefs is not checked.
ShapesMatch_PropOnly == shape(prop_prefs) = <<num_props, num_resps + 1>>

ShapesMatch ==
    /\ shape(prop_prefs) = <<num_props, num_resps + 1>>
    /\ shape(resp_prefs) = <<num_resps, num_props + 1>>

CapsLengthMatches == caps.is_none \/ len(caps.array) = num_resps

\* The ids that some position of a row holds: the cells prefs2ranks writes.
Written(row) == {row[j] : j \in DOMAIN row}

\* Mutant: the rank written for an id is the id itself.
LastPos_Identity(row, id) == id

\* The last position of a row that holds id.
LastPos(row, id) ==
    CHOOSE j \in DOMAIN row :
        /\ row[j] = id
        /\ \A k \in DOMAIN row : row[k] = id => k <= j

\* prefs2ranks: out[i, prefs[i, j]] = j for j ascending; a cell no position
\* names keeps what out held.
prefs2ranks(prefs, out) ==
    [i \in DOMAIN prefs |->
        [id \in DOMAIN out[i] |->
            IF id \in Written(prefs[i]) THEN LastPos(prefs[i], id)
            ELSE out[i][id]]]

\* The cells of an out array that prefs2ranks(prefs, out) leaves unwritten.
Unwritten(rows, cols, prefs) ==
    {c \in (0..(rows - 1)) \X (0..(cols - 1)) : c[2] \notin Written(prefs[c[1]])}

\* np.empty((rows, cols), dtype=int): the cells are uninitialised and may hold
\* any integer. Only the cells prefs2ranks leaves unwritten are ever read, so
\* only those vary, over 0..cols-1: a value equal to a rank written, or between
\* two of them. The loop only compares ranks. The other cells are 0.
np_empty(rows, cols, prefs) ==
    {[i \in 0..(rows - 1) |->
        [id \in 0..(cols - 1) |->
            IF <<i, id>> \in DOMAIN g THEN g[<<i, id>>] ELSE 0]] :
        g \in [Unwritten(rows, cols, prefs) -> 0..(cols - 1)]}

RECURSIVE cumsum(_, _)
cumsum(a, k) == IF k = 0 THEN 0 ELSE cumsum(a, k - 1) + a[k - 1]

\* lines 84-89
IndexPointers ==
    IF ~caps.is_none
    THEN [k \in 0..num_resps |-> cumsum(caps.array, k)]
    ELSE [k \in 0..num_resps |-> k]

\* lines 78-97: the mutable state of the loop as constructed, given the
\* index pointers
ConstructedState(ptr) ==
    [is_single_prop |-> [q \in Props |-> TRUE],
     next_resp |-> [q \in Props |-> 0],
     current_prop |-> [i \in 0..(ptr[num_resps] - 1) |-> resp_unmatched],
     nums_occupied |-> [r \in Resps |-> 0]]

\* lines 71-97: the arrays as constructed before the main loop
Constructed(ranks, ptr, single, nxt, cur, occ) ==
    /\ \E out \in np_empty(num_resps, num_props + 1, resp_prefs) :
           ranks = prefs2ranks(resp_prefs, out)
    /\ ptr = IndexPointers
    /\ single = ConstructedState(IndexPointers).is_single_prop
    /\ nxt = ConstructedState(IndexPointers).next_resp
    /\ cur = ConstructedState(IndexPointers).current_prop
    /\ occ = ConstructedState(IndexPointers).nums_occupied

----------------------------------------------------------------------------
\* deferred_acceptance, lines 99-135: one proposal of the main loop.
\* st is the mutable state of the loop as a record.

LoopState ==
    [is_single_prop |-> is_single_prop, next_resp |-> next_resp,
     current_prop |-> current_prop, nums_occupied |-> nums_occupied]

\* line 103: r = prop_prefs[p, next_resp[p]]
Target(st, q) == prop_prefs[q][st.next_resp[q]]

\* line 106
PrefersUnmatched(r) == r = prop_unmatched

\* Mutant: the test of line 110 is missing.
Unacceptable_Never(r, q) == FALSE

\* line 110
Unacceptable(r, q) == resp_ranks[r][q] > resp_ranks[r][resp_unmatched]

\* Mutant: line 114 with <= for <.
SeatsVacant_OffByOne(st, r) ==
    st.nums_occupied[r] <= indptr[r + 1] - indptr[r]

\* line 114
SeatsVacant(st, r) == st.nums_occupied[r] < indptr[r + 1] - indptr[r]

\* lines 124-128: the scan from slot i on, least_ptr being the least so far
RECURSIVE ScanLeast(_, _, _, _)
ScanLeast(st, r, i, least_ptr) ==
    IF i >= indptr[r + 1] THEN least_ptr
    ELSE IF resp_ranks[r][st.current_prop[least_ptr]]
              < resp_ranks[r][st.current_prop[i]]
         THEN ScanLeast(st, r, i + 1, i)
         ELSE ScanLeast(st, r, i + 1, least_ptr)

\* Mutant: the occupant of the last slot is taken for the least preferred.
LeastPtr_LastSlot(st, r) == indptr[r + 1] - 1

\* Mutant: the scan of lines 124-128 is skipped.
LeastPtr_NoScan(st, r) == indptr[r]

\* lines 122-128: the slot of the least preferred among the currently accepted
LeastPtr(st, r) == ScanLeast(st, r, indptr[r] + 1, indptr[r])

\* Mutant: line 130 with > for <.
Displaces_Worse(r, q, least) == resp_ranks[r][q] > resp_ranks[r][least]

\* Mutant: a held proposer is never displaced.
Displaces_Never(r, q, least) == FALSE

\* Mutant: the newcomer always displaces the least preferred.
Displaces_Always(r, q, least) == TRUE

\* line 130
Displaces(r, q, least) == resp_ranks[r][q] < resp_ranks[r][least]

\* Mutant: line 107 is missing.
StayUnmatched_KeepFlag(st, q) == st

\* line 107
StayUnmatched(st, q) == [st EXCEPT !.is_single_prop[q] = FALSE]

\* Mutant: line 117 is missing.
TakeSeat_NoCount(st, r, q) ==
    [st EXCEPT !.current_prop[indptr[r] + st.nums_occupied[r]] = q,
               !.is_single_prop[q] = FALSE]

\* lines 115-117
TakeSeat(st, r, q) ==
    [st EXCEPT !.current_prop[indptr[r] + st.nums_occupied[r]] = q,
               !.is_single_prop[q] = FALSE,
               !.nums_occupied[r] = @ + 1]

\* Mutant: line 133 is missing.
Replace_KeepFlag(st, least_ptr, q) ==
    [st EXCEPT !.current_prop[least_ptr] = q, !.is_single_prop[q] = FALSE]

\* lines 131-133
Replace(st, least_ptr, q) ==
    LET least == st.current_prop[least_ptr]
        held == [st EXCEPT !.current_prop[least_ptr] = q,
                           !.is_single_prop[q] = FALSE]
    IN  [held EXCEPT !.is_single_prop[least] = TRUE]

\* Mutant: line 135 adds 2.
Advance_Twice(st, q) == [st EXCEPT !.next_resp[q] = @ + 2]

\* Mutant: line 135 is missing.
Advance_Stay(st, q) == st

\* line 135
Advance(st, q) == [st EXCEPT !.next_resp[q] = @ + 1]

\* The branch of lines 106-133 that the proposal of q takes.
Branch(st, q) ==
    LET r == Target(st, q) IN
    IF PrefersUnmatched(r) THEN "unmatched"
    ELSE IF Unacceptable(r, q) THEN "unacceptable"
    ELSE IF SeatsVacant(st, r) THEN "vacant"
    ELSE IF Displaces(r, q, st.current_prop[LeastPtr(st, r)]) THEN "replace"
    ELSE "reject"

\* lines 103-135: the state after q has proposed
Proposal(st, q) ==
    LET r == Target(st, q)
        b == Branch(st, q)
        after == CASE b = "unmatched" -> StayUnmatched(st, q)
                   [] b = "unacceptable" -> st
                   [] b = "vacant" -> TakeSeat(st, r, q)
                   [] b = "replace" -> Replace(st, LeastPtr(st, r), q)
                   [] b = "reject" -> st
    IN  Advance(after, q)

\* line 100: is_single_prop.sum() > 0
Singles(st) == {q \in Props : st.is_single_prop[q]}

Min(S) == CHOOSE x \in S : \A y \in S : x <= y

\* lines 100-102: the next proposer the scan in index order reaches from
\* position from; a scan that finds none starts the next round at 0.
NextSingle(st, from) ==
    IF \E q \in Singles(st) : q >= from
    THEN Min({q \in Singles(st) : q >= from})
    ELSE Min(Singles(st))

\* Mutant: line 137 reads the row at the cursor, not before it.
prop_matches_of_AtCursor(st) ==
    [q \in Props |-> prop_prefs[q][st.next_resp[q] % (num_resps + 1)]]

\* line 137: prop_prefs[np.arange(num_props), next_resp-1]; an index of -1
\* reads the last column
prop_matches_of(st) ==
    [q \in Props |-> prop_prefs[q][(st.next_resp[q] - 1) % (num_resps + 1)]]

\* lines 137-143
Returned(st) ==
    IF caps.is_none
    THEN <<prop_matches_of(st), st.current_prop>>
    ELSE <<prop_matches_of(st), st.current_prop, indptr>>

----------------------------------------------------------------------------
\* Actions

\* q proposes and the proposal takes branch b; the read of line 103 is inside
\* q's row.
Propose(q, b) ==
    /\ pc = "loop"
    /\ q \in Singles(LoopState)
    /\ next_resp[q] \in DOMAIN prop_prefs[q]
    /\ Branch(LoopState, q) = b
    /\ LET st == Proposal(LoopState, q) IN
        /\ is_single_prop' = st.is_single_prop
        /\ next_resp' = st.next_resp
        /\ current_prop' = st.current_prop
        /\ nums_occupied' = st.nums_occupied
    /\ num_proposals' = [num_proposals EXCEPT ![q] = @ + 1]
    /\ UNCHANGED <<inputs, resp_ranks, indptr, pc, error, result, generator>>

\* The record of q's proposal, which takes branch b
Proposed(q, b) == [q |-> q, r |-> Target(LoopState, q), branch |-> b]

\* lines 100-102: the next single proposer the loop reaches from position p
InOrderProposer == NextSingle(LoopState, p)

\* lines 106-107
ProposeUnmatched ==
    /\ pc = "loop"
    /\ Singles(LoopState) # {}
    /\ Propose(InOrderProposer, "unmatched")
    /\ p' = InOrderProposer + 1
    /\ last' = Proposed(InOrderProposer, "unmatched")

\* lines 110-111
ProposeUnacceptable ==
    /\ pc = "loop"
    /\ Singles(LoopState) # {}
    /\ Propose(InOrderProposer, "unacceptable")
    /\ p' = InOrderProposer + 1
    /\ last' = Proposed(InOrderProposer, "unacceptable")

\* lines 114-117
ProposeVacant ==
    /\ pc = "loop"
    /\ Singles(LoopState) # {}
    /\ Propose(InOrderProposer, "vacant")
    /\ p' = InOrderProposer + 1
    /\ last' = Proposed(InOrderProposer, "vacant")

\* lines 120-133, the test of line 130 true
ProposeReplace ==
    /\ pc = "loop"
    /\ Singles(LoopState) # {}
    /\ Propose(InOrderProposer, "replace")
    /\ p' = InOrderProposer + 1
    /\ last' = Proposed(InOrderProposer, "replace")

\* lines 120-130, the test of line 130 false
ProposeReject ==
    /\ pc = "loop"
    /\ Singles(LoopState) # {}
    /\ Propose(InOrderProposer, "reject")
    /\ p' = InOrderProposer + 1
    /\ last' = Proposed(InOrderProposer, "reject")

\* line 100 finds no single proposer; lines 137-143
Return ==
    /\ pc = "loop"
    /\ Singles(LoopState) = {}
    /\ pc' = "done"
    /\ result' = Returned(LoopState)
    /\ UNCHANGED <<inputs, resp_ranks, indptr, is_single_prop, next_resp,
                   current_prop, nums_occupied, p, error, num_proposals,
                   last, generator>>

Loop ==
    \/ ProposeUnmatched
    \/ ProposeUnacceptable
    \/ ProposeVacant
    \/ ProposeReplace
    \/ ProposeReject
    \/ Return

----------------------------------------------------------------------------
\* The program on valid inputs, from the state line 99 finds.

CapsChoices(n) == {None} \cup {Caps(a) : a \in [0..(n - 1) -> 1..MaxCap]}

ScenarioPropPrefs == Matrix(<<<<0, 1, 2, 3>>, <<0, 1, 2, 3>>, <<0, 1, 2, 3>>>>)

ScenarioRespPrefs == Matrix(<<<<2, 1, 0, 3>>, <<2, 1, 0, 3>>, <<2, 1, 0, 3>>>>)

\* The position of id in a row
Pos(row, id) == CHOOSE j \in DOMAIN row : row[j] = id

\* The preference orders over 0..k whose entries below the sentinel k are in
\* increasing order. The code reads the order of those entries nowhere: a
\* proposer stops at its sentinel (line 106), and lines 110 and 130 compare an
\* entry a respondent ranks below its sentinel with the sentinel alone.
Orders(k) ==
    {f \in Perms(k) :
        \A a, b \in 0..k : Pos(f, k) < a /\ a < b => f[a] < f[b]}

\* Every preference order for at most MaxFull agents a side, the orders up
\* to the entries below the sentinel beyond.
PrefOrders(k, m, n) ==
    IF m <= MaxFull /\ n <= MaxFull THEN Perms(k) ELSE Orders(k)

ValidInputs ==
    \/ \E m \in 1..MaxProps, n \in 1..MaxResps :
        /\ prop_prefs \in [0..(m - 1) -> PrefOrders(n, m, n)]
        /\ resp_prefs \in [0..(n - 1) -> PrefOrders(m, m, n)]
        /\ caps \in CapsChoices(n)
    \/ /\ prop_prefs = ScenarioPropPrefs
       /\ resp_prefs = ScenarioRespPrefs
       /\ caps = None

Init ==
    /\ ValidInputs
    /\ Constructed(resp_ranks, indptr, is_single_prop, next_resp,
                   current_prop, nums_occupied)
    /\ p = 0
    /\ pc = "loop"
    /\ error = ""
    /\ result = <<>>
    /\ num_proposals = [q \in Props |-> 0]
    /\ last = NoProposal
    /\ NotGenerating

Next == Loop

Spec == Init /\ [][Next]_vars

\* The instances with at most MaxFull agents a side, all their orders
\* enumerated: the instances of the liveness check.
SmallInit == Init /\ num_props <= MaxFull /\ num_resps <= MaxFull

\* The loop is the only thread and it runs: a proposal or the return is taken
\* whenever one is possible.
FairSpec == SmallInit /\ [][Next]_vars /\ WF_vars(Next)

----------------------------------------------------------------------------
\* The loop with the proposers taken in any order: any proposer flagged single
\* makes the next proposal.

AnyUnmatched ==
    /\ pc = "loop"
    /\ \E q \in Singles(LoopState) : Propose(q, "unmatched")
    /\ UNCHANGED <<p, last>>

AnyUnacceptable ==
    /\ pc = "loop"
    /\ \E q \in Singles(LoopState) : Propose(q, "unacceptable")
    /\ UNCHANGED <<p, last>>

AnyVacant ==
    /\ pc = "loop"
    /\ \E q \in Singles(LoopState) : Propose(q, "vacant")
    /\ UNCHANGED <<p, last>>

AnyReplace ==
    /\ pc = "loop"
    /\ \E q \in Singles(LoopState) : Propose(q, "replace")
    /\ UNCHANGED <<p, last>>

AnyReject ==
    /\ pc = "loop"
    /\ \E q \in Singles(LoopState) : Propose(q, "reject")
    /\ UNCHANGED <<p, last>>

NextAnyOrder ==
    \/ AnyUnmatched
    \/ AnyUnacceptable
    \/ AnyVacant
    \/ AnyReplace
    \/ AnyReject
    \/ Return

SpecAnyOrder == Init /\ [][NextAnyOrder]_vars

\* lines 100-135 run to the end from state st and loop position from
RECURSIVE RunInOrder(_, _)
RunInOrder(st, from) ==
    IF Singles(st) = {} THEN st
    ELSE LET q == NextSingle(st, from) IN RunInOrder(Proposal(st, q), q + 1)

\* What deferred_acceptance returns on the inputs, lines 99-143
InOrderResult == Returned(RunInOrder(ConstructedState(indptr), 0))

----------------------------------------------------------------------------
\* The whole function, from its call on inputs of any shape.

\* lines 64-66
RaiseShapes ==
    /\ pc = "start"
    /\ ~ShapesMatch
    /\ pc' = "error"
    /\ error' = "shapes of preferences arrays do not match"
    /\ UNCHANGED <<inputs, resp_ranks, indptr, is_single_prop, next_resp,
                   current_prop, nums_occupied, p, result, num_proposals,
                   last, generator>>

\* lines 68-69
RaiseCapsLength ==
    /\ pc = "start"
    /\ ShapesMatch
    /\ ~CapsLengthMatches
    /\ pc' = "error"
    /\ error' = "length of caps must be equal to that of resp_prefs"
    /\ UNCHANGED <<inputs, resp_ranks, indptr, is_single_prop, next_resp,
                   current_prop, nums_occupied, p, result, num_proposals,
                   last, generator>>

\* lines 71-99
Construct ==
    /\ pc = "start"
    /\ ShapesMatch
    /\ CapsLengthMatches
    /\ Constructed(resp_ranks', indptr', is_single_prop', next_resp',
                   current_prop', nums_occupied')
    /\ p' = 0
    /\ pc' = "loop"
    /\ num_proposals' = [q \in Props |-> 0]
    /\ UNCHANGED <<inputs, error, result, last, generator>>

\* Matrices of at most MaxRaw rows and MaxRaw+1 columns, of any two shapes,
\* and caps of ones of any length up to MaxRaw. The rows of prop_prefs are
\* preference orders over their columns; the rows of resp_prefs hold any ids
\* of their columns, so they may repeat an id and miss another.
RawInputs ==
    \E pr, rr \in 1..MaxRaw : \E pcols, rcols \in 1..(MaxRaw + 1) :
        /\ prop_prefs \in [0..(pr - 1) -> Perms(pcols - 1)]
        /\ resp_prefs \in [0..(rr - 1) -> [0..(rcols - 1) -> 0..(rcols - 1)]]
        /\ caps \in {None} \cup
                    {Caps([i \in 0..(k - 1) |-> 1]) : k \in 1..MaxRaw}

InitRaw ==
    /\ RawInputs
    /\ resp_ranks = NotCreated
    /\ indptr = NotCreated
    /\ is_single_prop = NotCreated
    /\ next_resp = NotCreated
    /\ current_prop = NotCreated
    /\ nums_occupied = NotCreated
    /\ p = NotCreated
    /\ pc = "start"
    /\ error = ""
    /\ result = <<>>
    /\ num_proposals = NotCreated
    /\ last = NoProposal
    /\ NotGenerating

NextRaw ==
    \/ RaiseShapes
    \/ RaiseCapsLength
    \/ Construct
    \/ Loop

SpecRaw == InitRaw /\ [][NextRaw]_vars

----------------------------------------------------------------------------
\* random_prefs and _random_prefs of src/matching_tools.py

\* line 109: np.tile(np.arange(n+1), (m, 1))
np_tile(rows, cols) == [i \in 0..(rows - 1) |-> [j \in 0..cols |-> j]]

\* line 111: the outcomes of np.random.shuffle on the first cols entries of
\* row, the last entry staying where it is
np_shuffle(row, cols) ==
    {[j \in DOMAIN row |-> IF j < cols THEN row[s[j]] ELSE row[j]] :
        s \in Perms(cols - 1)}

\* line 114: the outcomes of np.random.randint(low, high, size): integers of
\* low..high-1
np_randint_FromZero(low, high, size) == [0..(size - 1) -> 0..(high - 1)]

np_randint(low, high, size) == [0..(size - 1) -> low..(high - 1)]

\* lines 115-117: row by row, the entry at the drawn ranking goes to the last
\* column and the sentinel takes its place
Swap_NoSentinel(prefs, unmatched_rankings, unmatched) ==
    [i \in DOMAIN prefs |->
        [j \in DOMAIN prefs[i] |->
            IF j = unmatched
            THEN prefs[i][unmatched_rankings[i]]
            ELSE prefs[i][j]]]

Swap(prefs, unmatched_rankings, unmatched) ==
    [i \in DOMAIN prefs |->
        [j \in DOMAIN prefs[i] |->
            IF j = unmatched_rankings[i]
            THEN unmatched
            ELSE IF j = unmatched
                 THEN prefs[i][unmatched_rankings[i]]
                 ELSE prefs[i][j]]]

\* line 119: np.ones(m, dtype=int) * n
np_ones_times(size, k) == [i \in 0..(size - 1) |-> k]

\* Floating point. A float of the model is the integer x that stands for
\* x / Unit, and it has Precision significant bits where np.float64 has 53:
\* the rounding rule is the one of IEEE 754, to nearest, ties to even.
Unit == 2 ^ Precision

\* line 122: the outcomes of np.random.random_sample(size): the floats of
\* [0, 1), which are the multiples of 1 / Unit below 1
np_random_sample(size) == [0..(size - 1) -> 0..(Unit - 1)]

\* The gap between the floats around x
RECURSIVE Gap(_, _)
Gap(x, g) == IF x < g * Unit THEN g ELSE Gap(x, 2 * g)

\* The float an exact result x is rounded to
Round(x) ==
    LET g == Gap(x, 1)
        lo == x \div g
        rest == x % g
    IN  IF 2 * rest < g THEN lo * g
        ELSE IF 2 * rest > g THEN (lo + 1) * g
        ELSE IF lo % 2 = 0 THEN lo * g
        ELSE (lo + 1) * g

\* line 123: np.floor(unmatched_rankings * u + 1).astype(int), both the
\* product and the sum rounded to a float
FloorCaps(unmatched_rankings, u) ==
    [i \in DOMAIN u |->
        Round(Round(unmatched_rankings[i] * u[i]) + Unit) \div Unit]

\* The locals of _random_prefs(rows, cols, allow_unmatched, return_caps) after
\* line 109; the names it has not bound yet are NotCreated
Called(side, rows, cols, return_caps) ==
    [side |-> side, m |-> rows, n |-> cols, return_caps |-> return_caps,
     prefs |-> np_tile(rows, cols),
     unmatched_rankings |-> NotCreated, caps |-> NotCreated]

\* The variables of deferred_acceptance, which random_prefs never touches
engine == <<inputs, resp_ranks, indptr, is_single_prop, next_resp,
            current_prop, nums_occupied, p, error, num_proposals, last>>

\* random_prefs line 94 and _random_prefs lines 107-109
CallProposers ==
    /\ pc = "random_prefs"
    /\ frame' = Called("m", args.m, args.n, FALSE)
    /\ pc' = "shuffle"
    /\ UNCHANGED <<engine, result, args, m_prefs>>

\* lines 110-111
Shuffle ==
    /\ pc = "shuffle"
    /\ \E prefs \in [DOMAIN frame.prefs ->
                         UNION {np_shuffle(frame.prefs[i], frame.n) :
                                    i \in DOMAIN frame.prefs}] :
           /\ \A i \in DOMAIN prefs :
                  prefs[i] \in np_shuffle(frame.prefs[i], frame.n)
           /\ frame' = [frame EXCEPT !.prefs = prefs]
    /\ pc' = "unmatched"
    /\ UNCHANGED <<engine, result, args, m_prefs>>

\* lines 113-117
RankUnmatched ==
    /\ pc = "unmatched"
    /\ args.allow_unmatched
    /\ \E unmatched_rankings \in np_randint(1, frame.n + 1, frame.m) :
           frame' = [frame EXCEPT
                        !.unmatched_rankings = unmatched_rankings,
                        !.prefs = Swap(@, unmatched_rankings, frame.n)]
    /\ pc' = "caps"
    /\ UNCHANGED <<engine, result, args, m_prefs>>

\* lines 118-119
UnmatchedLast ==
    /\ pc = "unmatched"
    /\ ~args.allow_unmatched
    /\ frame.return_caps
    /\ frame' = [frame EXCEPT
                    !.unmatched_rankings = np_ones_times(frame.m, frame.n)]
    /\ pc' = "caps"
    /\ UNCHANGED <<engine, result, args, m_prefs>>

\* lines 113 and 118, both conditions false
UnmatchedUnranked ==
    /\ pc = "unmatched"
    /\ ~args.allow_unmatched
    /\ ~frame.return_caps
    /\ pc' = "caps"
    /\ UNCHANGED <<engine, result, args, frame, m_prefs>>

\* lines 121-123
DrawCaps ==
    /\ pc = "caps"
    /\ frame.return_caps
    /\ \E u \in np_random_sample(frame.m) :
           frame' = [frame EXCEPT
                        !.caps = FloorCaps(frame.unmatched_rankings, u)]
    /\ pc' = "return"
    /\ UNCHANGED <<engine, result, args, m_prefs>>

\* line 121, condition false
NoCaps ==
    /\ pc = "caps"
    /\ ~frame.return_caps
    /\ pc' = "return"
    /\ UNCHANGED <<engine, result, args, frame, m_prefs>>

\* _random_prefs line 128 into random_prefs line 94, then the second call:
\* line 97 or 101 and _random_prefs lines 107-109
ReturnProposers ==
    /\ pc = "return"
    /\ frame.side = "m"
    /\ m_prefs' = frame.prefs
    /\ frame' = Called("f", args.n, args.m, args.return_caps)
    /\ pc' = "shuffle"
    /\ UNCHANGED <<engine, result, args>>

\* _random_prefs line 128 into random_prefs lines 97-99
ReturnPair ==
    /\ pc = "return"
    /\ frame.side = "f"
    /\ ~args.return_caps
    /\ result' = <<m_prefs, frame.prefs>>
    /\ pc' = "done"
    /\ UNCHANGED <<engine, args, frame, m_prefs>>

\* _random_prefs line 126 into random_prefs lines 101-103
ReturnTriple ==
    /\ pc = "return"
    /\ frame.side = "f"
    /\ args.return_caps
    /\ result' = <<m_prefs, frame.prefs, frame.caps>>
    /\ pc' = "done"
    /\ UNCHANGED <<engine, args, frame, m_prefs>>

\* random_prefs(m, n, allow_unmatched, return_caps) is called with m and n at
\* least 1
InitGen ==
    /\ args \in [m : 1..MaxProps, n : 1..MaxResps,
                 allow_unmatched : BOOLEAN, return_caps : BOOLEAN]
    /\ frame = NotCreated
    /\ m_prefs = NotCreated
    /\ pc = "random_prefs"
    /\ result = <<>>
    /\ error = ""
    /\ prop_prefs = NotCreated
    /\ resp_prefs = NotCreated
    /\ caps = NotCreated
    /\ resp_ranks = NotCreated
    /\ indptr = NotCreated
    /\ is_single_prop = NotCreated
    /\ next_resp = NotCreated
    /\ current_prop = NotCreated
    /\ nums_occupied = NotCreated
    /\ p = NotCreated
    /\ num_proposals = NotCreated
    /\ last = NoProposal

NextGen ==
    \/ CallProposers
    \/ Shuffle
    \/ RankUnmatched
    \/ UnmatchedLast
    \/ UnmatchedUnranked
    \/ DrawCaps
    \/ NoCaps
    \/ ReturnProposers
    \/ ReturnPair
    \/ ReturnTriple

SpecGen == InitGen /\ [][NextGen]_vars

----------------------------------------------------------------------------
\* The vocabulary of the properties: preferences as the inputs state them,
\* the matching as the function returns it.

\* The rank q gives r in its own row, 0 the most preferred
PropRank(q, r) == Pos(prop_prefs[q], r)

\* The rank r gives q in its own row, 0 the most preferred
RespRank(r, q) == Pos(resp_prefs[r], q)

Capacity(r) == IF caps.is_none THEN 1 ELSE caps.array[r]

RECURSIVE SumOver(_, _)
SumOver(f, S) ==
    IF S = {} THEN 0
    ELSE LET x == CHOOSE y \in S : TRUE IN f[x] + SumOver(f, S \ {x})

Max(S) == CHOOSE x \in S : \A y \in S : y <= x

Returned_prop_matches == result[1]

Returned_resp_matches == result[2]

\* The index pointers a caller slices resp_matches with
Returned_indptr ==
    IF Len(result) = 3 THEN result[3] ELSE [k \in 0..num_resps |-> k]

\* The slots of r in an array sliced by ptr
Slots(ptr, r) == ptr[r]..(ptr[r + 1] - 1)

\* The proposers the returned resp_matches holds for r
HeldBy(r) ==
    {Returned_resp_matches[i] : i \in Slots(Returned_indptr, r)}
        \ {resp_unmatched}

\* The proposers r holds in the slot array of the loop
HeldNow(r) == {current_prop[i] : i \in Slots(indptr, r)} \ {resp_unmatched}

\* r would take q: it ranks q above its least preferred held proposer when
\* all its seats are occupied, above a vacancy when it has a free seat.
WouldTake(r, q) ==
    IF Cardinality(HeldBy(r)) >= Capacity(r)
    THEN RespRank(r, q) < Max({RespRank(r, h) : h \in HeldBy(r)})
    ELSE RespRank(r, q) < RespRank(r, resp_unmatched)

Blocking(q, r) ==
    /\ Returned_prop_matches[q] # r
    /\ PropRank(q, r) < PropRank(q, Returned_prop_matches[q])
    /\ WouldTake(r, q)

\* C1: the returned matching has no blocking pair: no proposer q and
\* respondent r not matched to each other such that q ranks r above its match
\* and r ranks q above its least preferred held proposer (all seats occupied)
\* or above a vacancy (a free seat).
C1_Stability ==
    pc = "done" => \A q \in Props : \A r \in Resps : ~Blocking(q, r)

\* A respondent with two seats, both occupied, turned down a proposer that
\* prefers it to its match.
C1_Witness ==
    /\ pc = "done"
    /\ \E q \in Props : \E r \in Resps :
        /\ Capacity(r) = 2
        /\ Cardinality(HeldBy(r)) = 2
        /\ PropRank(q, r) < PropRank(q, Returned_prop_matches[q])
        /\ RespRank(r, q) < RespRank(r, resp_unmatched)

\* A one-to-one matching: each proposer's respondent, or prop_unmatched
Matchings ==
    {mu \in [Props -> 0..num_resps] :
        \A a, b \in Props : a # b /\ mu[a] = mu[b] => mu[a] = prop_unmatched}

\* The proposer mu gives r, resp_unmatched when it gives none
PartnerOf(mu, r) ==
    IF \E q \in Props : mu[q] = r
    THEN CHOOSE q \in Props : mu[q] = r
    ELSE resp_unmatched

\* mu is individually rational and has no blocking pair
Stable(mu) ==
    /\ \A q \in Props : PropRank(q, mu[q]) <= PropRank(q, prop_unmatched)
    /\ \A r \in Resps :
           RespRank(r, PartnerOf(mu, r)) <= RespRank(r, resp_unmatched)
    /\ \A q \in Props : \A r \in Resps :
           ~(/\ mu[q] # r
             /\ PropRank(q, r) < PropRank(q, mu[q])
             /\ RespRank(r, q) < RespRank(r, PartnerOf(mu, r)))

StableMatchings == {mu \in Matchings : Stable(mu)}

\* C2: without caps, every proposer ranks its returned match at least as high
\* as its partner in any stable matching of the instance.
C2_ProposerOptimal ==
    pc = "done" /\ caps.is_none =>
        \A mu \in StableMatchings : \A q \in Props :
            PropRank(q, Returned_prop_matches[q]) <= PropRank(q, mu[q])

\* The instance has a stable matching other than the returned one.
C2_Witness ==
    /\ pc = "done"
    /\ caps.is_none
    /\ \E mu \in StableMatchings : mu # Returned_prop_matches

\* The proposers whose last proposal stands: they proposed to r and are not
\* flagged single.
TentativelyMatched(r) ==
    {q \in Props :
        /\ ~is_single_prop[q]
        /\ next_resp[q] > 0
        /\ prop_prefs[q][next_resp[q] - 1] = r}

\* C4: in every state of the loop and in the result, nums_occupied[r] is at
\* most the capacity of r, which is indptr[r+1] - indptr[r] and 1 without
\* caps, and at most that many proposers are matched to r.
C4_CapacityRespected ==
    \A r \in Resps :
        /\ indptr[r + 1] - indptr[r] = Capacity(r)
        /\ nums_occupied[r] <= Capacity(r)
        /\ Cardinality(TentativelyMatched(r)) <= Capacity(r)
        /\ pc = "done" =>
               Cardinality({q \in Props : Returned_prop_matches[q] = r})
                   <= Capacity(r)

\* Both seats of a respondent are occupied while a proposer it turned down or
\* displaced is single again.
C4_Witness ==
    /\ pc = "loop"
    /\ \E r \in Resps : \E q \in Props :
        /\ Capacity(r) = 2
        /\ nums_occupied[r] = 2
        /\ is_single_prop[q]
        /\ next_resp[q] > 0
        /\ prop_prefs[q][next_resp[q] - 1] = r

\* C5: no proposer is matched in the result to a respondent it ranks below
\* its sentinel, and no slot, in any state of the loop or in the result, holds
\* a proposer its respondent ranks below its vacancy sentinel.
C5_IndividuallyRational ==
    /\ \A r \in Resps : \A i \in Slots(indptr, r) :
           RespRank(r, current_prop[i]) <= RespRank(r, resp_unmatched)
    /\ pc = "done" =>
        /\ \A q \in Props :
               PropRank(q, Returned_prop_matches[q])
                   <= PropRank(q, prop_unmatched)
        /\ \A r \in Resps : \A q \in HeldBy(r) :
               RespRank(r, q) < RespRank(r, resp_unmatched)

\* A proposer proposed to a respondent that ranks it below a vacancy and that
\* ends with a free seat.
C5_Witness ==
    /\ pc = "done"
    /\ \E q \in Props : \E r \in Resps :
        /\ PropRank(q, r) < PropRank(q, Returned_prop_matches[q])
        /\ RespRank(r, q) > RespRank(r, resp_unmatched)
        /\ Cardinality(HeldBy(r)) < Capacity(r)

\* C6: the two returned views describe the same matching: prop_matches[q] = r
\* exactly when q is in the slots of r, prop_matches[q] = n exactly when q is
\* in no slot, prop_matches[q] is q's row at its final cursor minus one, and
\* indptr is returned exactly when caps is given.
C6_ViewsAgree ==
    pc = "done" =>
        /\ Len(result) = (IF caps.is_none THEN 2 ELSE 3)
        /\ Returned_indptr = indptr
        /\ \A q \in Props :
            /\ Returned_prop_matches[q] = prop_prefs[q][next_resp[q] - 1]
            /\ \A r \in Resps :
                   Returned_prop_matches[q] = r <=> q \in HeldBy(r)
            /\ Returned_prop_matches[q] = prop_unmatched
                   <=> \A r \in Resps : q \notin HeldBy(r)

\* A displaced proposer ends unmatched or elsewhere, and a respondent holds two.
C6_Witness ==
    /\ pc = "done"
    /\ \E r \in Resps : Cardinality(HeldBy(r)) = 2
    /\ \E q \in Props : num_proposals[q] >= 2

IsScenario ==
    /\ prop_prefs = ScenarioPropPrefs
    /\ resp_prefs = ScenarioRespPrefs
    /\ caps = None

\* C9: the concrete scenario (m = n = 3, proposer rows [0,1,2,3], respondent
\* rows [2,1,0,3], no caps) returns prop_matches = [2,1,0] and
\* resp_matches = [2,1,0].
C9_Scenario ==
    IsScenario /\ pc = "done" =>
        result = <<Array(<<2, 1, 0>>), Array(<<2, 1, 0>>)>>

C9_Witness == IsScenario /\ pc = "done" /\ SumOver(num_proposals, Props) = 6

\* C3: the main loop reaches a state where no proposer is flagged single and
\* the function returns; over the whole run each proposer makes at most n+1
\* proposals and all proposers together at most m*(n+1).
C3_Termination ==
    /\ <>(pc = "done" /\ \A q \in Props : ~is_single_prop[q])
    /\ [](/\ \A q \in Props : num_proposals[q] <= num_resps + 1
          /\ SumOver(num_proposals, Props) <= num_props * (num_resps + 1))

\* Some proposer has made all the n+1 proposals its row allows.
C3_Witness ==
    /\ pc = "done"
    /\ num_resps = 2
    /\ \E q \in Props : num_proposals[q] = num_resps + 1

\* The proposers an array of slots holds for r
HeldIn(slots, r) == {slots[i] : i \in Slots(indptr, r)} \ {resp_unmatched}

\* C7: whatever single proposer makes each next proposal, the run ends with
\* the prop_matches of the run in index order, and with the same set of held
\* proposers for every respondent.
C7_OrderIndependent ==
    pc = "done" =>
        /\ Returned_prop_matches = InOrderResult[1]
        /\ \A r \in Resps : HeldBy(r) = HeldIn(InOrderResult[2], r)

\* A run out of index order ends with a respondent's proposers in other slots
\* than the run in index order leaves them in.
C7_Witness ==
    /\ pc = "done"
    /\ Returned_resp_matches # InOrderResult[2]

\* prop_prefs is m by n+1 and resp_prefs n by m+1, m and n their row counts,
\* and caps, when given, has length n.
ShapesConsistent ==
    /\ \A q \in DOMAIN prop_prefs :
           len(prop_prefs[q]) = len(resp_prefs) + 1
    /\ \A r \in DOMAIN resp_prefs :
           len(resp_prefs[r]) = len(prop_prefs) + 1
    /\ ~caps.is_none => len(caps.array) = len(resp_prefs)

NothingCreated ==
    /\ resp_ranks = NotCreated
    /\ indptr = NotCreated
    /\ is_single_prop = NotCreated
    /\ next_resp = NotCreated
    /\ current_prop = NotCreated
    /\ nums_occupied = NotCreated
    /\ result = <<>>

\* C8: on inconsistent shapes or a caps of the wrong length the function
\* raises, with no array created and nothing returned, and cannot go on; on
\* consistent inputs it raises nothing and goes on.
C8_ValidationErrors ==
    /\ pc = "start" =>
           IF ShapesConsistent
           THEN ENABLED Construct /\ ~ENABLED (RaiseShapes \/ RaiseCapsLength)
           ELSE ENABLED (RaiseShapes \/ RaiseCapsLength) /\ ~ENABLED Construct
    /\ pc = "error" => ~ShapesConsistent /\ error # "" /\ NothingCreated
    /\ pc \in {"loop", "done"} => ShapesConsistent /\ error = ""

\* The matrices fit each other and the length of caps does not.
C8_Witness ==
    /\ pc = "error"
    /\ len(prop_prefs[0]) = len(resp_prefs) + 1
    /\ len(resp_prefs[0]) = len(prop_prefs) + 1
    /\ error = "length of caps must be equal to that of resp_prefs"

\* A row of resp_prefs repeats an id or misses one.
MalformedRow ==
    \E r \in DOMAIN resp_prefs :
        Written(resp_prefs[r]) # DOMAIN resp_prefs[r]

\* C10: a row with a duplicate or missing id makes the function fail with an
\* error: it builds no rank table and runs no proposal loop on it.
C10_MalformedRejected ==
    MalformedRow => pc \in {"start", "error"} /\ NothingCreated


----------------------------------------------------------------------------
\* Properties of random_prefs

\* row holds every id of 0..k exactly once
IsPermutation(row, k) ==
    /\ DOMAIN row = 0..k
    /\ {row[j] : j \in DOMAIN row} = 0..k

C12_SentinelPlacement ==
    pc = "done" =>
        /\ \A i \in DOMAIN result[1] :
               IF args.allow_unmatched
               THEN result[1][i][0] # args.n
               ELSE result[1][i][args.n] = args.n
        /\ \A j \in DOMAIN result[2] :
               IF args.allow_unmatched
               THEN result[2][j][0] # args.m
               ELSE result[2][j][args.m] = args.m

\* With allow_unmatched, a proposer's sentinel is in column 1 of three and a
\* respondent's in its last column.
C12_Witness ==
    /\ pc = "done"
    /\ args.allow_unmatched
    /\ args.n = 2
    /\ \E i \in DOMAIN result[1] : result[1][i][1] = args.n
    /\ \E j \in DOMAIN result[2] : result[2][j][args.m] = args.m

\* C13: with return_caps, every returned capacity caps[j] is at least 1 and at
\* most the column of the sentinel m in row j of the returned respondent
\* matrix.
C13_CapsWithinBounds ==
    pc = "done" /\ args.return_caps =>
        \A j \in DOMAIN result[3] :
            /\ 1 <= result[3][j]
            /\ result[3][j] <= Pos(result[2][j], args.m)


----------------------------------------------------------------------------
\* Properties of single proposals

\* The step is a proposal by q.
ProposalBy(q) == pc = "loop" /\ num_proposals'[q] = num_proposals[q] + 1

\* The respondent q proposes to next: the entry of its row at its cursor
ProposedTo(q) == prop_prefs[q][next_resp[q]]

\* r ranks q above a vacancy.
Acceptable(r, q) == RespRank(r, q) < RespRank(r, resp_unmatched)

\* Every seat of r holds a proposer.
Full(r) == Cardinality(HeldNow(r)) = Capacity(r)

\* The proposer r ranks last among those it holds
WorstHeld(r) ==
    CHOOSE w \in HeldNow(r) :
        \A x \in HeldNow(r) : RespRank(r, x) <= RespRank(r, w)

\* The k members of S that r ranks best
BestOf(r, S, k) ==
    CHOOSE T \in SUBSET S :
        /\ Cardinality(T) = k
        /\ \A a \in T, b \in S \ T : RespRank(r, a) < RespRank(r, b)

\* q proposes to a respondent, not to its sentinel, and is turned down: the
\* respondent ranks it below a vacancy, or is full and does not rank it above
\* the worst it holds.
TurnedDown(q) ==
    /\ ProposedTo(q) # prop_unmatched
    /\ \/ ~Acceptable(ProposedTo(q), q)
       \/ /\ Full(ProposedTo(q))
          /\ RespRank(ProposedTo(q), q)
                 >= RespRank(ProposedTo(q), WorstHeld(ProposedTo(q)))

\* q proposes to a full respondent that ranks it above the worst it holds.
Evicts(q) ==
    /\ ProposedTo(q) # prop_unmatched
    /\ Acceptable(ProposedTo(q), q)
    /\ Full(ProposedTo(q))
    /\ RespRank(ProposedTo(q), q)
           < RespRank(ProposedTo(q), WorstHeld(ProposedTo(q)))

C14_Step ==
    \A q \in Props, r \in Resps, w \in Props :
        /\ ProposalBy(q)
        /\ ProposedTo(q) = r
        /\ Evicts(q)
        /\ WorstHeld(r) = w
        => /\ \E i \in Slots(indptr, r) :
                  /\ current_prop[i] = w
                  /\ current_prop' = [current_prop EXCEPT ![i] = q]
           /\ is_single_prop' =
                  [is_single_prop EXCEPT ![w] = TRUE, ![q] = FALSE]
           /\ HeldNow(r)' = BestOf(r, HeldNow(r) \cup {q}, Capacity(r))
           /\ nums_occupied' = nums_occupied

\* C14: when an acceptable proposer proposes to a respondent whose seats are
\* all occupied and ranks strictly better than the occupant the respondent
\* ranks worst, that occupant and no other is replaced in its slot, its single
\* flag is set and the proposer's is cleared, the respondent then holds the
\* capacity best of the old occupants and the proposer, and nums_occupied is
\* unchanged.
C14_EvictionRule == [][C14_Step]_vars

\* A respondent with two seats has just replaced an occupant, and not the one
\* of its first slot.
C14_Witness ==
    /\ pc = "loop"
    /\ last.branch = "replace"
    /\ Capacity(last.r) = 2
    /\ current_prop[indptr[last.r] + 1] = last.q

C15_Step ==
    \A q \in Props :
        ProposalBy(q) /\ TurnedDown(q) =>
            /\ current_prop' = current_prop
            /\ nums_occupied' = nums_occupied
            /\ is_single_prop' = is_single_prop
            /\ is_single_prop[q]
            /\ next_resp' = [next_resp EXCEPT ![q] = @ + 1]

\* C15: a proposal to a respondent that ranks the proposer below a vacancy, or
\* that is full and does not rank the proposer strictly above its worst
\* occupant, leaves current_prop, nums_occupied, every single flag and every
\* other cursor as they were and moves the proposer's cursor by one.
C15_RejectionFrame == [][C15_Step]_vars

\* A respondent with a free seat has just turned down a proposer it ranks
\* below a vacancy.
C15_Witness ==
    /\ pc = "loop"
    /\ last.branch = "unacceptable"
    /\ nums_occupied[last.r] < Capacity(last.r)
    /\ next_resp[last.q] > 0
    /\ is_single_prop[last.q]


C16_Range ==
    pc \in {"loop", "done"} =>
        \A q \in Props :
            /\ 0 <= next_resp[q]
            /\ next_resp[q] <= num_resps + 1
            /\ is_single_prop[q] => next_resp[q] <= num_resps
            /\ is_single_prop[q] => next_resp[q] \in DOMAIN prop_prefs[q]

C16_Step ==
    \A q \in Props :
        /\ next_resp'[q] >= next_resp[q]
        /\ IF ProposalBy(q)
           THEN next_resp'[q] = next_resp[q] + 1
           ELSE next_resp'[q] = next_resp[q]

\* C16: every cursor next_resp[p] is between 0 and n+1, is at most n while p
\* is single, so that the read of prop_prefs[p, next_resp[p]] is inside the
\* row, never decreases, and moves by exactly one on each proposal of p,
\* whatever its outcome, and on no other step.
C16_CursorInvariant == [](C16_Range) /\ [][C16_Step]_vars

\* A proposer has proposed down to the sentinel in its last column and its
\* cursor is n+1, while another is single with its cursor on the last column.
C16_Witness ==
    /\ pc = "loop"
    /\ \E q \in Props : next_resp[q] = num_resps + 1
    /\ \E q \in Props : is_single_prop[q] /\ next_resp[q] = num_resps

\* The last proposal of q was to its sentinel.
ProposedToSentinel(q) ==
    /\ next_resp[q] > 0
    /\ prop_prefs[q][next_resp[q] - 1] = prop_unmatched

\* q is in some slot.
Occupies(q) == \E i \in DOMAIN current_prop : current_prop[i] = q

C17_State ==
    pc \in {"loop", "done"} =>
        \A q \in Props :
            ProposedToSentinel(q) =>
                /\ ~is_single_prop[q]
                /\ ~Occupies(q)
                /\ pc = "done" => Returned_prop_matches[q] = prop_unmatched

C17_Step ==
    \A q \in Props :
        /\ ProposalBy(q) /\ ProposedTo(q) = prop_unmatched
               => ProposedToSentinel(q)' /\ ~is_single_prop'[q]
        /\ ProposedToSentinel(q)
               => /\ ~ProposalBy(q)
                  /\ next_resp'[q] = next_resp[q]
                  /\ ~is_single_prop'[q]
                  /\ ~Occupies(q)'

\* C17: a proposal of p to its sentinel clears p's single flag; from then on
\* the flag stays cleared, p makes no proposal, its cursor does not move, p is
\* in no slot, and the returned prop_matches[p] is n.
C17_PermanentlyUnmatched == [](C17_State) /\ [][C17_Step]_vars

\* The function has returned, one proposer having proposed to its sentinel
\* before the last proposal of another.
C17_Witness ==
    /\ pc = "done"
    /\ \E q \in Props :
           /\ ProposedToSentinel(q)
           /\ next_resp[q] <= num_resps
           /\ last.q # q
           /\ Returned_prop_matches[q] = prop_unmatched


----------------------------------------------------------------------------
\* Properties of the rank table and of the slot array

\* C18: for every row of resp_prefs that is a permutation of 0..m, the row of
\* the rank table that prefs2ranks fills has out[i, prefs[i, j]] = j at every
\* position j, is a bijection of the ids 0..m onto the ranks 0..m, and ranks
\* id a below id b exactly when a comes before b in the row.
C18_RankInversion ==
    pc \in {"loop", "done"} =>
        \A i \in DOMAIN resp_prefs :
            IsPermutation(resp_prefs[i], num_props) =>
                /\ \A j \in 0..num_props :
                       resp_ranks[i][resp_prefs[i][j]] = j
                /\ DOMAIN resp_ranks[i] = 0..num_props
                /\ {resp_ranks[i][a] : a \in 0..num_props} = 0..num_props
                /\ \A a, b \in 0..num_props :
                       a # b => resp_ranks[i][a] # resp_ranks[i][b]
                /\ \A j, k \in 0..num_props :
                       j < k <=> resp_ranks[i][resp_prefs[i][j]]
                                     < resp_ranks[i][resp_prefs[i][k]]

\* The rank table is built from a row that is a permutation of three ids and
\* moves every one of them.
C18_Witness ==
    /\ pc = "loop"
    /\ \E i \in DOMAIN resp_prefs :
           /\ IsPermutation(resp_prefs[i], 2)
           /\ \A j \in 0..2 : resp_prefs[i][j] # j
           /\ resp_ranks[i][resp_prefs[i][0]] = 0

\* The slots that hold q
SlotsOf(q) == {i \in DOMAIN current_prop : current_prop[i] = q}

\* C19: between proposals the first nums_occupied[r] slots of every respondent
\* r hold pairwise distinct proposers and the others hold the sentinel m;
\* every proposer is in at most one slot; a proposer's single flag is false
\* exactly when it is in one slot or its last proposal was to its sentinel;
\* so the occupant a full respondent would evict is a proposer, not the
\* sentinel.
C19_FlagSlotConsistency ==
    pc \in {"loop", "done"} =>
        /\ \A r \in Resps :
               /\ nums_occupied[r] \in 0..Capacity(r)
               /\ \A i \in Slots(indptr, r) :
                      IF i < indptr[r] + nums_occupied[r]
                      THEN current_prop[i] \in Props
                      ELSE current_prop[i] = resp_unmatched
               /\ \A i, j \in Slots(indptr, r) :
                      /\ i # j
                      /\ i < indptr[r] + nums_occupied[r]
                      /\ j < indptr[r] + nums_occupied[r]
                      => current_prop[i] # current_prop[j]
               /\ nums_occupied[r] = Capacity(r) =>
                      current_prop[LeastPtr(LoopState, r)] \in Props
        /\ \A q \in Props :
               /\ Cardinality(SlotsOf(q)) <= 1
               /\ ~is_single_prop[q] <=>
                      \/ Cardinality(SlotsOf(q)) = 1
                      \/ ProposedToSentinel(q)

\* A respondent with two seats holds one proposer, a proposer has proposed to
\* its sentinel, and a proposer that was turned down is single.
C19_Witness ==
    /\ pc = "loop"
    /\ \E r \in Resps : Capacity(r) = 2 /\ nums_occupied[r] = 1
    /\ \E q \in Props : ProposedToSentinel(q)
    /\ \E q \in Props : is_single_prop[q] /\ next_resp[q] > 0

\* q has proposed to r and r does not hold it: r rejected or evicted it.
TurnedAway(r, q) ==
    /\ PropRank(q, r) < next_resp[q]
    /\ q \notin HeldNow(r)

C20_State ==
    pc = "done" =>
        \A r \in Resps, q \in Props :
            TurnedAway(r, q) =>
                \/ ~Acceptable(r, q)
                \/ /\ Full(r)
                   /\ \A h \in HeldNow(r) : RespRank(r, h) <= RespRank(r, q)

C20_Step ==
    \A r \in Resps :
        /\ nums_occupied'[r] >= nums_occupied[r]
        /\ nums_occupied[r] = Capacity(r) =>
               RespRank(r, WorstHeld(r))' <= RespRank(r, WorstHeld(r))

\* C20: nums_occupied[r] never decreases; once r is full the rank number of
\* the proposer it ranks worst among those it holds never increases; and at
\* termination every proposer r rejected or evicted is unacceptable to r, or r
\* is full and ranks it no better than any proposer it holds.
C20_RespondentsImprove == [](C20_State) /\ [][C20_Step]_vars

\* The function has returned and a full respondent with two seats has turned
\* away a proposer it finds acceptable.
C20_Witness ==
    /\ pc = "done"
    /\ \E r \in Resps, q \in Props :
           /\ Capacity(r) = 2
           /\ Full(r)
           /\ TurnedAway(r, q)
           /\ Acceptable(r, q)

====
